---- MODULE Spec2Model ----
(***************************************************************************)
(* A model of query-sso-admin-access.ts: the retry wrapper                 *)
(* (retryWithBackoff), the three resolution caches (getUserName,           *)
(* getGroupName, getGroupMembers), the per work unit assignment walk       *)
(* (getAssignments) and the bounded fan-out and aggregation in main.       *)
(*                                                                         *)
(* A step of the model is one run of JavaScript between two suspension     *)
(* points of a task: from the resumption of an `await` (a remote answer, a *)
(* backoff timer, the return of an async lookup) to the next `await`.      *)
(* Steps that are promise jobs run before the next callback of the event   *)
(* loop (see CallbacksRun).                                                *)
(***************************************************************************)
EXTENDS Integers, Sequences, FiniteSets, TLC

(***************************************************************************)
(* Program constants.  CONCURRENCY_LIMIT is 10 in the source; the model    *)
(* runs it scaled down to 2, so that there are more work units than slots. *)
(***************************************************************************)
CONCURRENCY_LIMIT == 2
MAX_RETRIES == 5
INITIAL_RETRY_DELAY == 1000

(* Bound of the model: the number of remote calls the service fails over a *)
(* run (with throttling or another transient error, on one attempt or on   *)
(* several).                                                               *)
MaxFaults == 1

(***************************************************************************)
(* The remote directory (the answers the service gives when it does not    *)
(* fail transiently).                                                      *)
(***************************************************************************)

(* getOrgAccounts: Map accountId -> accountName, in insertion order *)
accounts == << <<"a1", "Prod">>, <<"a2", "Dev">> >>

(* getAllPermissionSets: Map permissionSetArn -> name, in insertion order *)
allPermissionSets == << <<"ps1", "Admin">>, <<"ps2", "Read">> >>

(* a missing (undefined or empty) string field of a response *)
Missing == ""

Ref(id, type) == [PrincipalId |-> id, PrincipalType |-> type]

(* ListAccountAssignments: the pages of AccountAssignments of a work unit *)
AssignmentPages(accountId, permissionSetArn) ==
  CASE accountId = "a1" /\ permissionSetArn = "ps1" ->
         << <<Ref("u1", "USER")>>, <<Ref("g1", "GROUP")>> >>
    [] accountId = "a1" /\ permissionSetArn = "ps2" ->
         << <<Ref("u1", "USER"), Ref("u2", "USER")>> >>
    [] accountId = "a2" /\ permissionSetArn = "ps1" ->
         << <<Ref(Missing, "USER"), Ref("g2", "GROUP"), Ref("g1", "GROUP"),
              Ref("g3", "GROUP")>> >>
    [] OTHER ->
         << <<Ref("u3", "USER"), Ref("u3", Missing)>> >>

UserIds == {"u1", "u2", "u3"}
GroupIds == {"g1", "g2", "g3"}

(* errors of the service: the fields the program inspects *)
Err(name, status, message) ==
  [name |-> name, httpStatusCode |-> status, message |-> message]
NotFoundError == Err("ResourceNotFoundException", 404, "Resource not found")
ThrottlingError == Err("ThrottlingException", 400, "Rate exceeded")
TooManyError == Err("TooManyRequestsException", 400, "Too many requests")
Status429Error == Err("ServiceError", 429, "Slow down")
InternalError == Err("InternalServerException", 500, "Internal failure")
NoError == Err("", 0, "")

(* the transient failures the service may answer a call with: its rate-limit
   error for the operation, in one of the three shapes retryWithBackoff knows,
   or an internal failure *)
FaultErrors(op) ==
  {CASE op = "ListAccountAssignments" -> TooManyError
     [] op = "DescribeGroup" -> Status429Error
     [] OTHER -> ThrottlingError,
   InternalError}

Ok(v) == [ok |-> TRUE, value |-> v, error |-> NoError]
Fail(e) == [ok |-> FALSE, value |-> <<>>, error |-> e]

(* DescribeUser: the response's UserName (Missing when the service sends none) *)
DescribeUser(userId) ==
  CASE userId = "u1" -> Ok(<<"alice">>)
    [] userId = "u2" -> Fail(NotFoundError)
    [] OTHER -> Ok(<<Missing>>)

(* DescribeGroup: the response's DisplayName *)
DescribeGroup(groupId) ==
  CASE groupId = "g1" -> Ok(<<"Devs">>)
    [] groupId = "g3" -> Ok(<<"Ops">>)
    [] OTHER -> Fail(NotFoundError)

(* ListGroupMemberships: the pages of member user ids of a group *)
MembershipPages(groupId) ==
  CASE groupId = "g1" -> << <<"u1">>, <<"u3">> >>
    [] groupId = "g3" -> << <<"u1">> >>
    [] OTHER -> << >>

GroupExists(groupId) == groupId \in {"g1", "g3"}


(***************************************************************************)
(* State.                                                                  *)
(***************************************************************************)
VARIABLES
  task,                 \* per work unit: position and locals of its async job
  userCache,            \* Map userId -> name
  groupCache,           \* Map groupId -> name
  groupMembersCache,    \* Map groupId -> member id list
  lookups,              \* per (operation, id): lookups that missed the cache
  faults,               \* remote calls the service has failed so far
  completedOperations,  \* the shared counter of main
  allAssignments,       \* the aggregated rows of main
  run                   \* "running", "written" (report on disk), "exited"

vars == <<task, userCache, groupCache, groupMembersCache, lookups, faults,
          completedOperations, allAssignments, run>>

(* nested loops with the permission sets outside and the accounts inside *)
allTasksPermissionMajor ==
  [k \in 1..(Len(accounts) * Len(allPermissionSets)) |->
     LET a == accounts[((k - 1) % Len(accounts)) + 1]
         p == allPermissionSets[((k - 1) \div Len(accounts)) + 1]
     IN [accountId |-> a[1], accountName |-> a[2],
         permissionSetArn |-> p[1], permissionSetName |-> p[2]]]

(* main: the nested loops that build allTasks, account-major *)
allTasks ==
  [k \in 1..(Len(accounts) * Len(allPermissionSets)) |->
     LET a == accounts[((k - 1) \div Len(allPermissionSets)) + 1]
         p == allPermissionSets[((k - 1) % Len(allPermissionSets)) + 1]
     IN [accountId |-> a[1], accountName |-> a[2],
         permissionSetArn |-> p[1], permissionSetName |-> p[2]]]

Tasks == 1..Len(allTasks)

PagesOf(t) == AssignmentPages(allTasks[t].accountId, allTasks[t].permissionSetArn)

(* the operationName labels passed to retryWithBackoff; substring(0, 8) keeps the
   ids of the model whole, they have fewer than 8 characters *)
Label(op, id) ==
  IF op = "ListAccountAssignments" THEN op \o "(" \o id \o ")"
  ELSE op \o "(" \o id \o "...)"

(* retryWithBackoff: the classification of a caught error *)
IsRateLimitError(error) ==
  \/ error.name = "TooManyRequestsException"
  \/ error.name = "ThrottlingException"
  \/ error.httpStatusCode = 429

(* a remote call of a task: the operation, its argument and page token, whether it
   runs inside retryWithBackoff, the loop variable `attempt`, the number of times
   the operation was invoked and of retry messages sent to globalLogger *)
NoCall ==
  [op |-> "", id |-> "", token |-> 0, wrapped |-> FALSE, attempt |-> 0,
   invoked |-> 0, logged |-> 0, lastErr |-> NoError,
   exponentialDelay |-> 0, jitter |-> 0]

NewCall(op, id, token, wrapped) ==
  [op |-> op, id |-> id, token |-> token, wrapped |-> wrapped, attempt |-> 0,
   invoked |-> 1, logged |-> 0, lastErr |-> NoError,
   exponentialDelay |-> 0, jitter |-> 0]

(* the job of a work unit before p-limit starts it *)
InitTask ==
  [pc |-> "queued", ctx |-> "", page |-> 0, i |-> 0, m |-> 0,
   groupId |-> "", groupName |-> "", members |-> <<>>, acc |-> <<>>,
   retName |-> "", retList |-> <<>>, rows |-> <<>>,
   call |-> NoCall, error |-> NoError]

NoKey == <<"", "">>
Keys == ({"DescribeUser"} \X UserIds) \cup ({"DescribeGroup"} \X GroupIds)
          \cup ({"ListGroupMemberships"} \X GroupIds)

(* the outcome of a synchronous run of a task: its new state, the lookup it
   started (NoKey when none) *)
Out(s, key) == [s |-> s, key |-> key]


(***************************************************************************)
(* The caches (Map): has, get, set.                                        *)
(***************************************************************************)
(* a cache whose lookups never find an entry *)
HasNever(map, k) == FALSE

EmptyMap == [k \in {} |-> ""]
Has(map, k) == k \in DOMAIN map
Set(map, k, v) == [x \in DOMAIN map \cup {k} |-> IF x = k THEN v ELSE map[x]]

(***************************************************************************)
(* retryWithBackoff.                                                       *)
(***************************************************************************)

(* a retry loop that rethrows only when the budget is used up *)
ShouldThrowOnlyWhenExhausted(error, attempt, retries) == attempt = retries

(* line 81: the caught error is rethrown, no retry *)
ShouldThrow(error, attempt, retries) ==
  ~IsRateLimitError(error) \/ attempt = retries

(* what an answer of the service does to the call it answers: "return" hands the
   value to the caller, "throw" hands it the error, "retry" logs and backs off.
   A call that is not wrapped in retryWithBackoff has no "retry". *)
Decision(call, ans) ==
  IF ans.ok THEN "return"
  ELSE IF call.wrapped /\ ~ShouldThrow(ans.error, call.attempt, MAX_RETRIES)
       THEN "retry"
       ELSE "throw"

(* the call a lookup returns from: retryWithBackoff has returned the response of
   its last attempt, or the catch block of the lookup holds the error *)
Ended(call, ans) == [call EXCEPT !.lastErr = ans.error]

(* line 87 with a delay that grows by INITIAL_RETRY_DELAY per attempt *)
ExponentialDelayLinear(attempt) == INITIAL_RETRY_DELAY * (attempt + 1)

(* line 87 *)
ExponentialDelay(attempt) == INITIAL_RETRY_DELAY * 2^attempt

(* line 88: Math.random() * 1000, in whole milliseconds; the model draws the
   least value, the greatest and one between *)
Jitters == {0, 500, 999}

(* a retry that sleeps without a message to globalLogger *)
BackoffSilent(s, error, jitter) ==
  [s EXCEPT !.pc = "sleep",
            !.call = [s.call EXCEPT !.lastErr = error,
                        !.exponentialDelay = ExponentialDelay(s.call.attempt),
                        !.jitter = jitter]]

(* lines 85-99: the retry message goes to globalLogger, the task sleeps *)
Backoff(s, error, jitter) ==
  [s EXCEPT !.pc = "sleep",
            !.call = [s.call EXCEPT !.lastErr = error, !.logged = @ + 1,
                        !.exponentialDelay = ExponentialDelay(s.call.attempt),
                        !.jitter = jitter]]

(***************************************************************************)
(* The lookups, from their entry to their first await.                     *)
(***************************************************************************)

(* getUserName lines 191-206 *)
EnterGetUserName(s, userId, ctx) ==
  IF Has(userCache, userId)
  THEN Out([s EXCEPT !.pc = "ret", !.ctx = ctx, !.retName = userCache[userId]],
           NoKey)
  ELSE Out([s EXCEPT !.pc = "await", !.ctx = ctx,
                     !.call = NewCall("DescribeUser", userId, 0, TRUE)],
           <<"DescribeUser", userId>>)

(* getGroupName lines 231-246 *)
EnterGetGroupName(s, groupId) ==
  IF Has(groupCache, groupId)
  THEN Out([s EXCEPT !.pc = "ret", !.ctx = "gname",
                     !.retName = groupCache[groupId]], NoKey)
  ELSE Out([s EXCEPT !.pc = "await", !.ctx = "gname",
                     !.call = NewCall("DescribeGroup", groupId, 0, TRUE)],
           <<"DescribeGroup", groupId>>)

(* getGroupMembers lines 271-287: the send is not wrapped in retryWithBackoff *)
EnterGetGroupMembers(s, groupId) ==
  IF Has(groupMembersCache, groupId)
  THEN Out([s EXCEPT !.pc = "ret", !.ctx = "gmembers",
                     !.retList = groupMembersCache[groupId]], NoKey)
  ELSE Out([s EXCEPT !.pc = "await", !.ctx = "gmembers", !.acc = <<>>,
                     !.call = NewCall("ListGroupMemberships", groupId, 0, FALSE)],
           <<"ListGroupMemberships", groupId>>)

(***************************************************************************)
(* getAssignments: the walk over the assignments of the current page.      *)
(***************************************************************************)

(* a walk that returns after the first page, whatever its NextToken *)
RECURSIVE ProcessFromOnePage(_, _, _)
ProcessFromOnePage(t, s, i) ==
  LET page == PagesOf(t)[s.page] IN
  IF i > Len(page)
  THEN Out([s EXCEPT !.pc = "returned", !.ctx = "", !.i = 0], NoKey)
  ELSE LET a == page[i] IN
       IF a.PrincipalId = Missing \/ a.PrincipalType = Missing
       THEN ProcessFromOnePage(t, s, i + 1)
       ELSE IF a.PrincipalType = "USER"
       THEN EnterGetUserName([s EXCEPT !.i = i], a.PrincipalId, "user")
       ELSE IF a.PrincipalType = "GROUP"
       THEN EnterGetGroupName([s EXCEPT !.i = i, !.groupId = a.PrincipalId],
                              a.PrincipalId)
       ELSE ProcessFromOnePage(t, s, i + 1)

(* a walk without the test of line 338 *)
RECURSIVE ProcessFromUnchecked(_, _, _)
ProcessFromUnchecked(t, s, i) ==
  LET page == PagesOf(t)[s.page] IN
  IF i > Len(page)
  THEN IF s.page < Len(PagesOf(t))
       THEN Out([s EXCEPT !.pc = "await", !.ctx = "list", !.i = 0,
                          !.call = NewCall("ListAccountAssignments",
                                           allTasks[t].accountId, s.page, TRUE)],
                NoKey)
       ELSE Out([s EXCEPT !.pc = "returned", !.ctx = "", !.i = 0], NoKey)
  ELSE LET a == page[i] IN
       IF a.PrincipalType = "USER"
       THEN EnterGetUserName([s EXCEPT !.i = i], a.PrincipalId, "user")
       ELSE IF a.PrincipalType = "GROUP"
       THEN EnterGetGroupName([s EXCEPT !.i = i, !.groupId = a.PrincipalId],
                              a.PrincipalId)
       ELSE ProcessFromUnchecked(t, s, i + 1)

(* lines 336-388 from assignment i of page s.page on, up to the next await *)
RECURSIVE ProcessFrom(_, _, _)
ProcessFrom(t, s, i) ==
  LET page == PagesOf(t)[s.page] IN
  IF i > Len(page)
  THEN IF s.page < Len(PagesOf(t))
       THEN Out([s EXCEPT !.pc = "await", !.ctx = "list", !.i = 0,
                          !.call = NewCall("ListAccountAssignments",
                                           allTasks[t].accountId, s.page, TRUE)],
                NoKey)
       ELSE Out([s EXCEPT !.pc = "returned", !.ctx = "", !.i = 0], NoKey)
  ELSE LET a == page[i] IN
       IF a.PrincipalId = Missing \/ a.PrincipalType = Missing
       THEN ProcessFrom(t, s, i + 1)
       ELSE IF a.PrincipalType = "USER"
       THEN EnterGetUserName([s EXCEPT !.i = i], a.PrincipalId, "user")
       ELSE IF a.PrincipalType = "GROUP"
       THEN EnterGetGroupName([s EXCEPT !.i = i, !.groupId = a.PrincipalId],
                              a.PrincipalId)
       ELSE ProcessFrom(t, s, i + 1)

(* a member loop that stops one member short *)
NextMemberStopsShort(t, s, m) ==
  IF m >= Len(s.members)
  THEN ProcessFrom(t, [s EXCEPT !.m = 0, !.members = <<>>, !.groupId = "",
                                !.groupName = ""], s.i + 1)
  ELSE EnterGetUserName([s EXCEPT !.m = m], s.members[m], "member")

(* lines 367-382 from member m of the group's list on *)
NextMember(t, s, m) ==
  IF m > Len(s.members)
  THEN ProcessFrom(t, [s EXCEPT !.m = 0, !.members = <<>>, !.groupId = "",
                                !.groupName = ""], s.i + 1)
  ELSE EnterGetUserName([s EXCEPT !.m = m], s.members[m], "member")

(* lines 347-353 *)
UserRow(t, username) ==
  [accountNumber |-> allTasks[t].accountId, accountName |-> "",
   username |-> username, permissionSetName |-> allTasks[t].permissionSetName,
   assignmentType |-> "USER"]

(* a member row that does not say which group it comes from *)
GroupRowWithoutGroup(t, username, groupName) ==
  [accountNumber |-> allTasks[t].accountId, accountName |-> "",
   username |-> username, permissionSetName |-> allTasks[t].permissionSetName,
   assignmentType |-> "GROUP", groupName |-> ""]

(* lines 374-381 *)
GroupRow(t, username, groupName) ==
  [accountNumber |-> allTasks[t].accountId, accountName |-> "",
   username |-> username, permissionSetName |-> allTasks[t].permissionSetName,
   assignmentType |-> "GROUP", groupName |-> groupName]


(***************************************************************************)
(* The service's side of a call.                                           *)
(***************************************************************************)

(* the answer of the directory to a call, when the service does not fail *)
Answer(t, call) ==
  CASE call.op = "ListAccountAssignments" -> Ok(PagesOf(t)[call.token + 1])
    [] call.op = "DescribeUser" -> DescribeUser(call.id)
    [] call.op = "DescribeGroup" -> DescribeGroup(call.id)
    [] OTHER -> IF GroupExists(call.id)
                THEN Ok(MembershipPages(call.id)[call.token + 1])
                ELSE Fail(NotFoundError)

Injected(call) == {Fail(e) : e \in FaultErrors(call.op)}

(* the answers an invocation may get: the directory's, or a failure, which the
   service may give to a call it already failed or while the budget lasts *)
Answers(t, call) ==
  {Answer(t, call)}
    \cup (IF call.attempt > 0 \/ faults < MaxFaults THEN Injected(call) ELSE {})

(* a call is charged to the budget at its first failure *)
Charge(call, ans) ==
  faults' = IF ans \in Injected(call) /\ call.attempt = 0 THEN faults + 1
            ELSE faults

Apply(t, out) ==
  /\ task' = [task EXCEPT ![t] = out.s]
  /\ lookups' = IF out.key = NoKey THEN lookups
                ELSE [lookups EXCEPT ![out.key] = @ + 1]

InFlight == {t \in Tasks : task[t].pc \notin {"queued", "done", "failed"}}

(* a limiter that starts a queued task whatever the number in flight *)
SlotFreeUnbounded == \E t \in Tasks : task[t].pc = "queued"

(* limit(): a queued task can start *)
SlotFree ==
  /\ \E t \in Tasks : task[t].pc = "queued"
  /\ Cardinality(InFlight) < CONCURRENCY_LIMIT

(* A promise job is pending: a lookup or getAssignments has returned and its
   caller has not resumed, p-limit can start a task, or Promise.all has settled
   (line 602) and main has not gone on. *)
JobsPending ==
  \/ SlotFree
  \/ \E t \in Tasks : task[t].pc \in {"ret", "returned", "failed"}
  \/ \A t \in Tasks : task[t].pc = "done"

(* Answers of the service and backoff timers are callbacks of the event loop, and
   the event loop runs every pending promise job before it runs the next
   callback.  So a callback finds every task at an await of a remote answer or of
   a timer, and the rejection of a job reaches the catch of main (lines 602,
   655-657) and process.exit(1) before any further callback runs. *)
CallbacksRun == run = "running" /\ ~JobsPending

(***************************************************************************)
(* Initial state: main has enumerated accounts and permission sets, built  *)
(* allTasks and handed every task to limit().                              *)
(***************************************************************************)
Init ==
  /\ task = [t \in Tasks |-> InitTask]
  /\ userCache = EmptyMap
  /\ groupCache = EmptyMap
  /\ groupMembersCache = [k \in {} |-> <<>>]
  /\ lookups = [k \in Keys |-> 0]
  /\ faults = 0
  /\ completedOperations = 0
  /\ allAssignments = <<>>
  /\ run = "running"

(***************************************************************************)
(* Actions.                                                                *)
(***************************************************************************)

(* limit(): the oldest queued task starts when a slot is free; its job runs
   into getAssignments and sends the request for the first page *)
Start(t) ==
  /\ run = "running"
  /\ task[t].pc = "queued"
  /\ \A u \in Tasks : u < t => task[u].pc # "queued"
  /\ SlotFree
  /\ Apply(t, Out([task[t] EXCEPT !.pc = "await", !.ctx = "list",
                     !.call = NewCall("ListAccountAssignments",
                                      allTasks[t].accountId, 0, TRUE)], NoKey))
  /\ UNCHANGED <<userCache, groupCache, groupMembersCache, faults,
                 completedOperations, allAssignments, run>>

(* retryWithBackoff: the backoff timer fires after exponentialDelay + jitter, the
   loop invokes the operation again *)
Wake(t) ==
  /\ CallbacksRun
  /\ task[t].pc = "sleep"
  /\ task' = [task EXCEPT ![t].pc = "await",
                          ![t].call = [@ EXCEPT !.attempt = @ + 1,
                                                !.invoked = @ + 1,
                                                !.lastErr = NoError,
                                                !.jitter = 0]]
  /\ UNCHANGED <<userCache, groupCache, groupMembersCache, lookups, faults,
                 completedOperations, allAssignments, run>>

(* getAssignments lines 322-335: a ListAccountAssignments page is answered *)
RespondList(t) ==
  /\ CallbacksRun
  /\ task[t].pc = "await" /\ task[t].ctx = "list"
  /\ \E ans \in Answers(t, task[t].call) :
       LET s == task[t]
           d == Decision(s.call, ans)
       IN /\ Charge(s.call, ans)
          /\ CASE d = "retry" ->
                    \E jitter \in Jitters :
                      Apply(t, Out(Backoff(s, ans.error, jitter), NoKey))
               [] d = "return" ->
                    Apply(t, ProcessFrom(t, [s EXCEPT !.page = s.call.token + 1,
                                                      !.call = NoCall], 1))
               [] OTHER ->
                    Apply(t, Out([s EXCEPT !.pc = "failed", !.error = ans.error,
                                           !.call.lastErr = ans.error], NoKey))
  /\ UNCHANGED <<userCache, groupCache, groupMembersCache,
                 completedOperations, allAssignments, run>>

(* a lookup that makes a tombstone of every failed DescribeUser *)
UserResultAlwaysTombstone(userId, ans) ==
  IF ans.ok
  THEN IF ans.value[1] = Missing THEN userId ELSE ans.value[1]
  ELSE "[Deleted User: " \o userId \o "]"

(* a lookup that falls back to the raw id on every failed DescribeUser *)
UserResultNeverTombstone(userId, ans) ==
  IF ans.ok
  THEN IF ans.value[1] = Missing THEN userId ELSE ans.value[1]
  ELSE userId

(* getUserName lines 196-223: what the lookup caches and returns for an answer
   that ends the DescribeUser call *)
UserResult(userId, ans) ==
  IF ans.ok
  THEN IF ans.value[1] = Missing THEN userId ELSE ans.value[1]
  ELSE IF ans.error.name = "ResourceNotFoundException"
       THEN "[Deleted User: " \o userId \o "]"
       ELSE userId

(* a lookup that falls back to the raw id on every failed DescribeGroup *)
GroupResultNeverTombstone(groupId, ans) ==
  IF ans.ok
  THEN IF ans.value[1] = Missing THEN groupId ELSE ans.value[1]
  ELSE groupId

(* getGroupName lines 236-263 *)
GroupResult(groupId, ans) ==
  IF ans.ok
  THEN IF ans.value[1] = Missing THEN groupId ELSE ans.value[1]
  ELSE IF ans.error.name = "ResourceNotFoundException"
       THEN "[Deleted Group: " \o groupId \o "]"
       ELSE groupId

(* getUserName: a DescribeUser call is answered *)
RespondUser(t) ==
  /\ CallbacksRun
  /\ task[t].pc = "await" /\ task[t].ctx \in {"user", "member"}
  /\ \E ans \in Answers(t, task[t].call) :
       LET s == task[t]
           d == Decision(s.call, ans)
           r == UserResult(s.call.id, ans)
       IN /\ Charge(s.call, ans)
          /\ IF d = "retry"
             THEN /\ \E jitter \in Jitters :
                       Apply(t, Out(Backoff(s, ans.error, jitter), NoKey))
                  /\ UNCHANGED userCache
             ELSE /\ userCache' = Set(userCache, s.call.id, r)
                  /\ Apply(t, Out([s EXCEPT !.pc = "ret", !.retName = r,
                                            !.call = Ended(s.call, ans)], NoKey))
  /\ UNCHANGED <<groupCache, groupMembersCache,
                 completedOperations, allAssignments, run>>

(* getGroupName: a DescribeGroup call is answered *)
RespondGroup(t) ==
  /\ CallbacksRun
  /\ task[t].pc = "await" /\ task[t].ctx = "gname"
  /\ \E ans \in Answers(t, task[t].call) :
       LET s == task[t]
           d == Decision(s.call, ans)
           r == GroupResult(s.call.id, ans)
       IN /\ Charge(s.call, ans)
          /\ IF d = "retry"
             THEN /\ \E jitter \in Jitters :
                       Apply(t, Out(Backoff(s, ans.error, jitter), NoKey))
                  /\ UNCHANGED groupCache
             ELSE /\ groupCache' = Set(groupCache, s.call.id, r)
                  /\ Apply(t, Out([s EXCEPT !.pc = "ret", !.retName = r,
                                            !.call = Ended(s.call, ans)], NoKey))
  /\ UNCHANGED <<userCache, groupMembersCache,
                 completedOperations, allAssignments, run>>

(* getGroupMembers lines 280-307: a ListGroupMemberships page is answered; an
   error of any class ends the loop and the members pushed so far are cached *)
RespondMembers(t) ==
  /\ CallbacksRun
  /\ task[t].pc = "await" /\ task[t].ctx = "gmembers"
  /\ \E ans \in Answers(t, task[t].call) :
       LET s == task[t]
           d == Decision(s.call, ans)
           members == IF d = "return" THEN s.acc \o ans.value ELSE s.acc
           more == d = "return"
                   /\ s.call.token + 1 < Len(MembershipPages(s.call.id))
       IN /\ Charge(s.call, ans)
          /\ IF more
             THEN /\ Apply(t, Out([s EXCEPT !.acc = members,
                                     !.call = NewCall("ListGroupMemberships",
                                                s.call.id, s.call.token + 1,
                                                FALSE)], NoKey))
                  /\ UNCHANGED groupMembersCache
             ELSE /\ groupMembersCache' = Set(groupMembersCache, s.call.id, members)
                  /\ Apply(t, Out([s EXCEPT !.pc = "ret", !.retList = members,
                                            !.acc = <<>>,
                                            !.call = Ended(s.call, ans)], NoKey))
  /\ UNCHANGED <<userCache, groupCache,
                 completedOperations, allAssignments, run>>

(* getAssignments: a lookup has returned, the walk goes on to its next await *)
Resume(t) ==
  /\ run = "running"
  /\ task[t].pc = "ret"
  /\ LET s == task[t] IN
     CASE s.ctx = "user" ->
            Apply(t, ProcessFrom(t, [s EXCEPT !.retName = "", !.call = NoCall,
                                     !.rows = Append(@, UserRow(t, s.retName))],
                                 s.i + 1))
       [] s.ctx = "gname" ->
            Apply(t, EnterGetGroupMembers([s EXCEPT !.retName = "",
                                                    !.call = NoCall,
                                                    !.groupName = s.retName],
                                          s.groupId))
       [] s.ctx = "gmembers" ->
            Apply(t, NextMember(t, [s EXCEPT !.retList = <<>>, !.call = NoCall,
                                             !.members = s.retList], 1))
       [] OTHER ->
            Apply(t, NextMember(t, [s EXCEPT !.retName = "", !.call = NoCall,
                           !.rows = Append(@, GroupRow(t, s.retName, s.groupName))],
                                s.m + 1))
  /\ UNCHANGED <<userCache, groupCache, groupMembersCache, faults,
                 completedOperations, allAssignments, run>>

(* a task that resolves without counting itself *)
CompleteUncounted(t) ==
  /\ run = "running"
  /\ task[t].pc = "returned"
  /\ task' = [task EXCEPT ![t].pc = "done",
                ![t].rows = [k \in 1..Len(@) |->
                               [@[k] EXCEPT !.accountName = allTasks[t].accountName]]]
  /\ UNCHANGED <<userCache, groupCache, groupMembersCache, lookups, faults,
                 completedOperations, allAssignments, run>>

(* main lines 565-598: getAssignments has returned; the rows get the account name,
   the counter is incremented, the task's promise resolves *)
Complete(t) ==
  /\ run = "running"
  /\ task[t].pc = "returned"
  /\ task' = [task EXCEPT ![t].pc = "done",
                ![t].rows = [k \in 1..Len(@) |->
                               [@[k] EXCEPT !.accountName = allTasks[t].accountName]]]
  /\ completedOperations' = completedOperations + 1
  /\ UNCHANGED <<userCache, groupCache, groupMembersCache, lookups, faults,
                 allAssignments, run>>

(* main lines 605-611: the account ids in the order accountMap first sees them *)
RECURSIVE AccountOrder(_)
AccountOrder(k) ==
  IF k = 0 THEN <<>>
  ELSE LET prev == AccountOrder(k - 1)
           id == allTasks[k].accountId
       IN IF \E j \in 1..Len(prev) : prev[j] = id THEN prev ELSE Append(prev, id)

(* a grouping that unshifts the rows of a task result one by one *)
RECURSIVE AccountRowsUnshifted(_, _, _)
AccountRowsUnshifted(tk, id, k) ==
  IF k = 0 THEN <<>>
  ELSE AccountRowsUnshifted(tk, id, k - 1)
         \o (IF allTasks[k].accountId = id
             THEN [j \in 1..Len(tk[k].rows) |->
                     tk[k].rows[Len(tk[k].rows) + 1 - j]]
             ELSE <<>>)

(* the rows accountMap holds for an account after the first k task results *)
RECURSIVE AccountRows(_, _, _)
AccountRows(tk, id, k) ==
  IF k = 0 THEN <<>>
  ELSE AccountRows(tk, id, k - 1)
         \o (IF allTasks[k].accountId = id THEN tk[k].rows ELSE <<>>)

(* a flattening that takes the accounts of accountMap last first *)
RECURSIVE FlattenLastFirst(_, _, _)
FlattenLastFirst(tk, order, n) ==
  IF n = 0 THEN <<>>
  ELSE AccountRows(tk, order[n], Len(allTasks)) \o FlattenLastFirst(tk, order, n - 1)

(* main lines 613-616 *)
RECURSIVE Flatten(_, _, _)
Flatten(tk, order, n) ==
  IF n = 0 THEN <<>>
  ELSE Flatten(tk, order, n - 1) \o AccountRows(tk, order[n], Len(allTasks))

(* a main that goes on to the report once every task has settled *)
AggregateWhenSettled ==
  /\ run = "running"
  /\ \A t \in Tasks : task[t].pc \in {"done", "failed"}
  /\ allAssignments' = Flatten(task, AccountOrder(Len(allTasks)),
                               Len(AccountOrder(Len(allTasks))))
  /\ run' = "written"
  /\ UNCHANGED <<task, userCache, groupCache, groupMembersCache, lookups, faults,
                 completedOperations>>

(* main lines 602-654: Promise.all has resolved; group by account, flatten, write *)
Aggregate ==
  /\ run = "running"
  /\ \A t \in Tasks : task[t].pc = "done"
  /\ allAssignments' = Flatten(task, AccountOrder(Len(allTasks)),
                               Len(AccountOrder(Len(allTasks))))
  /\ run' = "written"
  /\ UNCHANGED <<task, userCache, groupCache, groupMembersCache, lookups, faults,
                 completedOperations>>

(* the catch block of main without process.exit: the failure is swallowed and
   the run never leaves "running" *)
ExitSwallowed ==
  /\ run = "running"
  /\ \E t \in Tasks : task[t].pc = "failed"
  /\ UNCHANGED <<run, task, userCache, groupCache, groupMembersCache, lookups,
                 faults, completedOperations, allAssignments>>

(* main lines 655-658: Promise.all has rejected; process.exit(1) *)
Exit ==
  /\ run = "running"
  /\ \E t \in Tasks : task[t].pc = "failed"
  /\ run' = "exited"
  /\ UNCHANGED <<task, userCache, groupCache, groupMembersCache, lookups, faults,
                 completedOperations, allAssignments>>

Next ==
  \/ \E t \in Tasks : Start(t)
  \/ \E t \in Tasks : Wake(t)
  \/ \E t \in Tasks : RespondList(t)
  \/ \E t \in Tasks : RespondUser(t)
  \/ \E t \in Tasks : RespondGroup(t)
  \/ \E t \in Tasks : RespondMembers(t)
  \/ \E t \in Tasks : Resume(t)
  \/ \E t \in Tasks : Complete(t)
  \/ Aggregate
  \/ Exit

Spec == Init /\ [][Next]_vars

(* The run as the event loop schedules it.  Promise.all rejects with the first
   rejection and the catch of main is a promise job, which the event loop runs:
   process.exit(1) is not postponed for ever. *)
FairSpec == Spec /\ WF_vars(Exit)

(* The run when every remote call returns and the event loop is fair: a pending
   promise job, an answer of the service or a timer that has fired is run.  No
   step of the run can be repeated for ever (attempts, pages, members and tasks
   are bounded), so weak fairness of the steps as a whole is what this needs. *)
LiveSpec == Spec /\ WF_vars(Next)

TypeOK ==
  /\ \A t \in Tasks : task[t].pc \in {"queued", "await", "sleep", "ret",
                                      "returned", "done", "failed"}
  /\ faults \in 0..MaxFaults
  /\ run \in {"running", "written", "exited"}


(***************************************************************************)
(* Vocabulary of the properties.                                           *)
(***************************************************************************)
NameCtx == {"user", "member", "gname"}
UserCtx == {"user", "member"}
LookupCtx == {"user", "member", "gname", "gmembers"}

(* the id the lookup a task is in was called with *)
LookupId(t, s) ==
  CASE s.ctx = "user" -> PagesOf(t)[s.page][s.i].PrincipalId
    [] s.ctx = "member" -> s.members[s.m]
    [] OTHER -> s.groupId

(* where in its walk a task is *)
Position(s) == <<s.ctx, s.page, s.i, s.m>>

OtherError(e) ==
  e # NoError /\ ~IsRateLimitError(e) /\ e.name # "ResourceNotFoundException"

(* the terminal error of an exhausted call, as the specification describes it *)
TerminalError(label, retries) ==
  Err("Error", 0, "Failed after " \o ToString(retries) \o " retries: " \o label)

(* every member of every page of a group *)
RECURSIVE MembersUpTo(_, _)
MembersUpTo(groupId, n) ==
  IF n = 0 THEN <<>>
  ELSE MembersUpTo(groupId, n - 1) \o MembershipPages(groupId)[n]

AllMembers(groupId) == MembersUpTo(groupId, Len(MembershipPages(groupId)))

(***************************************************************************)
(* C1: within one retryWithBackoff call the operation is invoked at most   *)
(* MAX_RETRIES + 1 times, and it is invoked again only after an attempt    *)
(* that raised a rate-limit error: any other error ends the call.          *)
(***************************************************************************)
C1_BoundedAttempts ==
  [][\A t \in Tasks :
       LET c == task[t].call
           d == task'[t].call
       IN /\ d.invoked <= MAX_RETRIES + 1
          /\ (/\ c.invoked >= 1
              /\ d.op = c.op /\ d.id = c.id /\ d.token = c.token
              /\ d.invoked = c.invoked + 1)
               => (c.wrapped /\ IsRateLimitError(c.lastErr))]_vars

(* one call is on its last attempt while another was ended by its first error *)
C1_Witness ==
  /\ \E t \in Tasks : task[t].pc = "await"
                      /\ task[t].call.invoked = MAX_RETRIES + 1
  /\ \E u \in Tasks : task[u].pc = "ret" /\ task[u].call.invoked = 1
                      /\ task[u].call.lastErr = NotFoundError

(***************************************************************************)
(* C2: a call whose MAX_RETRIES + 1 attempts all failed with a rate-limit  *)
(* error fails with a terminal error that names the operation and the      *)
(* number of retries.                                                      *)
(***************************************************************************)
C2_TerminalError ==
  \A t \in Tasks :
    (/\ task[t].pc = "failed"
     /\ task[t].call.invoked = MAX_RETRIES + 1
     /\ IsRateLimitError(task[t].call.lastErr))
      => task[t].error = TerminalError(Label(task[t].call.op, task[t].call.id),
                                       MAX_RETRIES)

C4_EveryCallRetried ==
  \A t \in Tasks :
    (IsRateLimitError(task[t].call.lastErr) /\ task[t].pc # "sleep")
      => task[t].call.invoked = MAX_RETRIES + 1

(***************************************************************************)
(* C5: the list groupMembersCache holds for a group that exists has the    *)
(* members of every page of the group.                                     *)
(***************************************************************************)
C5_AllPagesCached ==
  \A g \in DOMAIN groupMembersCache :
    GroupExists(g) => groupMembersCache[g] = AllMembers(g)

(***************************************************************************)
(* C6: no step changes or removes a value a cache holds.                   *)
(***************************************************************************)
C6_WriteOnce ==
  [][/\ \A k \in DOMAIN userCache :
          k \in DOMAIN userCache' /\ userCache'[k] = userCache[k]
     /\ \A k \in DOMAIN groupCache :
          k \in DOMAIN groupCache' /\ groupCache'[k] = groupCache[k]
     /\ \A k \in DOMAIN groupMembersCache :
          k \in DOMAIN groupMembersCache'
          /\ groupMembersCache'[k] = groupMembersCache[k]]_vars

(***************************************************************************)
(* C7: the getUserName calls for one id all return the same name: a call   *)
(* never returns a name other than the one the cache holds for the id from *)
(* an earlier call; and at most CONCURRENCY_LIMIT DescribeUser lookups are *)
(* started per id.                                                         *)
(***************************************************************************)
C7_SameNameBounded ==
  [][/\ \A t \in Tasks :
          LET s == task[t]
              n == task'[t]
          IN (/\ n.pc = "ret" /\ n.ctx \in UserCtx
              /\ (s.pc = "await" \/ Position(n) # Position(s))
              /\ LookupId(t, n) \in DOMAIN userCache)
               => n.retName = userCache[LookupId(t, n)]
     /\ \A id \in UserIds :
          lookups'[<<"DescribeUser", id>>] <= CONCURRENCY_LIMIT]_vars

(***************************************************************************)
(* C8: over a run at most one DescribeUser lookup is started per user id.  *)
(***************************************************************************)
C8_FetchedOnce ==
  \A id \in UserIds : lookups[<<"DescribeUser", id>>] <= 1

(***************************************************************************)
(* C9: a lookup entered for an id its cache holds returns the cached value *)
(* at once: no remote call, no lookup counted, no cache written.           *)
(***************************************************************************)
C9_CacheHit ==
  [][\A t \in Tasks :
       LET s == task[t]
           n == task'[t]
           id == LookupId(t, n)
       IN (/\ n.ctx \in LookupCtx /\ n.pc \in {"ret", "await"}
           /\ Position(n) # Position(s)
           /\ id \in DOMAIN (CASE n.ctx = "gname" -> groupCache
                                [] n.ctx = "gmembers" -> groupMembersCache
                                [] OTHER -> userCache))
            => /\ n.pc = "ret" /\ n.call = NoCall
               /\ CASE n.ctx = "gname" -> n.retName = groupCache[id]
                    [] n.ctx = "gmembers" -> n.retList = groupMembersCache[id]
                    [] OTHER -> n.retName = userCache[id]
               /\ UNCHANGED <<userCache, groupCache, groupMembersCache, lookups>>
     ]_vars

(* a task has the row of u1, a second task has the name of u1 returned, and only
   one lookup was ever started for u1 *)
C9_Witness ==
  \E t, u \in Tasks :
    /\ t # u
    /\ Len(task[t].rows) > 0 /\ task[t].rows[1].username = "alice"
    /\ task[u].pc = "ret" /\ task[u].ctx = "user" /\ LookupId(u, task[u]) = "u1"
    /\ task[u].retName = "alice"
    /\ lookups[<<"DescribeUser", "u1">>] = 1

(***************************************************************************)
(* C10: a DescribeUser (DescribeGroup) call that ends with a not-found     *)
(* error makes the lookup return `[Deleted User: <id>]` (`[Deleted Group:  *)
(* <id>]`) and store it in the cache; the work unit does not fail and the  *)
(* run goes on.                                                            *)
(***************************************************************************)
ExpectedTombstone(id) ==
  CASE id = "u1" -> "[Deleted User: u1]"
    [] id = "u2" -> "[Deleted User: u2]"
    [] id = "u3" -> "[Deleted User: u3]"
    [] id = "g1" -> "[Deleted Group: g1]"
    [] id = "g3" -> "[Deleted Group: g3]"
    [] OTHER -> "[Deleted Group: g2]"

C10_NotFoundAbsorbed ==
  [][\A t \in Tasks :
       LET s == task[t]
           n == task'[t]
       IN (/\ s.pc = "await" /\ s.ctx \in NameCtx
           /\ n.call.lastErr.name = "ResourceNotFoundException")
            => /\ n.pc = "ret"
               /\ n.retName = ExpectedTombstone(s.call.id)
               /\ IF s.ctx = "gname"
                  THEN s.call.id \in DOMAIN groupCache'
                       /\ groupCache'[s.call.id] = ExpectedTombstone(s.call.id)
                  ELSE s.call.id \in DOMAIN userCache'
                       /\ userCache'[s.call.id] = ExpectedTombstone(s.call.id)
               /\ run' = "running"]_vars

(* the report is written and a row of it names the deleted user, after the
   deleted group was resolved too *)
C10_Witness ==
  /\ run = "written"
  /\ \E k \in 1..Len(allAssignments) :
       allAssignments[k].username = "[Deleted User: u2]"
  /\ "g2" \in DOMAIN groupCache /\ groupCache["g2"] = "[Deleted Group: g2]"

(***************************************************************************)
(* C11: at most CONCURRENCY_LIMIT tasks are in flight (started by limit()  *)
(* and neither resolved nor rejected); a task that is still queued has     *)
(* issued no remote call; a task leaves the queue only while fewer than    *)
(* CONCURRENCY_LIMIT are in flight, and a task that resolves or rejects    *)
(* is in flight no longer, so its slot goes to the next queued task.       *)
(***************************************************************************)
C11_BoundedInFlight ==
  [][LET Running == {"await", "sleep", "ret", "returned"}
         Active(tk) == {t \in Tasks : tk[t].pc \in Running}
     IN /\ Cardinality(Active(task')) <= CONCURRENCY_LIMIT
        /\ \A t \in Tasks :
             /\ task'[t].pc = "queued"
                  => /\ task'[t].call = NoCall
                     /\ task'[t].page = 0 /\ task'[t].rows = <<>>
             /\ (task[t].pc = "queued" /\ task'[t].pc # "queued")
                  => /\ Cardinality(Active(task)) < CONCURRENCY_LIMIT
                     /\ task'[t].pc = "await"
                     /\ task'[t].call.op = "ListAccountAssignments"
             /\ (task[t].pc \in Running /\ task'[t].pc \in {"done", "failed"})
                  => Active(task') = Active(task) \ {t}]_vars

(* both slots were released, one by a task that resolved and one by a task that
   rejected: the two tasks queued behind them are in flight *)
C11_Witness ==
  /\ \E t \in Tasks : task[t].pc = "done"
  /\ \E t \in Tasks : task[t].pc = "failed"
  /\ Cardinality({t \in Tasks : task[t].pc \in {"await", "sleep"}})
       = CONCURRENCY_LIMIT

(***************************************************************************)
(* C12: the rows of a work unit are one per direct USER assignment and,    *)
(* per GROUP assignment, one per member of the list getGroupMembers        *)
(* returned for it; the final collection has as many rows as the work      *)
(* units have together.                                                    *)
(***************************************************************************)

(* the well-formed assignments of a type in the pages of a work unit *)
AssignmentsOfType(t, type) ==
  {pi \in UNION {{<<p, i>> : i \in 1..Len(PagesOf(t)[p])} :
                   p \in 1..Len(PagesOf(t))} :
     /\ PagesOf(t)[pi[1]][pi[2]].PrincipalType = type
     /\ PagesOf(t)[pi[1]][pi[2]].PrincipalId # Missing}

RowsOfType(rows, type) ==
  {k \in 1..Len(rows) : rows[k].assignmentType = type}

RECURSIVE TotalRows(_, _)
TotalRows(tk, k) ==
  IF k = 0 THEN 0 ELSE TotalRows(tk, k - 1) + Len(tk[k].rows)

C12_RowCount ==
  [][/\ \A t \in Tasks :
          LET s == task[t]
              n == task'[t]
              resumed == s.pc = "ret" /\ n # s
              sameAssignment == n.page = s.page /\ n.i = s.i
              leftGroup == n.m = 0 /\ n.members = <<>> /\ ~sameAssignment
          IN \* a row is added when a user name comes back, and only then
             /\ Len(n.rows)
                  = Len(s.rows) + (IF resumed /\ s.ctx \in UserCtx THEN 1 ELSE 0)
             \* a direct USER assignment is left with its one row
             /\ (resumed /\ s.ctx = "user") => ~sameAssignment
             \* the member loop runs over the list getGroupMembers returned
             /\ (resumed /\ s.ctx = "gmembers")
                  => IF s.retList = <<>> THEN leftGroup
                     ELSE /\ sameAssignment /\ n.ctx = "member"
                          /\ n.members = s.retList /\ n.m = 1
             /\ (resumed /\ s.ctx = "member")
                  => IF s.m = Len(s.members) THEN leftGroup
                     ELSE /\ sameAssignment /\ n.ctx = "member"
                          /\ n.members = s.members /\ n.m = s.m + 1
             \* every direct USER assignment was walked
             /\ n.pc = "done"
                  => Cardinality(RowsOfType(n.rows, "USER"))
                       = Cardinality(AssignmentsOfType(t, "USER"))
     /\ run' = "written"
          => Len(allAssignments') = TotalRows(task', Len(allTasks))]_vars

(* the report is written; one work unit has a direct USER row and two rows of a
   group, another has no row for its first group and three for its other two *)
C12_Witness ==
  /\ run = "written"
  /\ Len(task[1].rows) = 3 /\ Len(task[3].rows) = 3
  /\ Len(allAssignments) = 9

(***************************************************************************)
(* C13: the report is written only when every task has resolved and their  *)
(* rows are aggregated; once a task has rejected the report is never       *)
(* written, and the run ends in process.exit(1).                           *)
(***************************************************************************)
C13_FailFast ==
  /\ [](/\ run = "written"
             => /\ \A t \in Tasks : task[t].pc = "done"
                /\ completedOperations = Len(allTasks)
                /\ Len(allAssignments) = TotalRows(task, Len(allTasks))
        /\ run = "exited" => allAssignments = <<>>
        /\ (\E t \in Tasks : task[t].pc = "failed") => run # "written")
  /\ (\E t \in Tasks : task[t].pc = "failed") ~> (run = "exited")

(* the run has exited after one task rejected, while every other task had
   resolved with its rows *)
C13_Witness ==
  /\ run = "exited"
  /\ \E t \in Tasks :
       /\ task[t].pc = "failed"
       /\ \A u \in Tasks \ {t} : task[u].pc = "done"
  /\ \E u \in Tasks : task[u].pc = "done" /\ task[u].rows # <<>>

(***************************************************************************)
(* C14: a call made through retryWithBackoff that is answered with a       *)
(* rate-limit error on k attempts in a row (1 <= k <= MAX_RETRIES) and     *)
(* then with a response hands its caller what the response holds, as a     *)
(* call answered at once does; it has logged k retry messages by then, and *)
(* each was logged before the attempt that followed it.                    *)
(***************************************************************************)

(* what a name lookup makes of the response of the directory *)
NameInDirectory(op, id) ==
  LET r == IF op = "DescribeUser" THEN DescribeUser(id) ELSE DescribeGroup(id)
  IN IF r.value[1] = Missing THEN id ELSE r.value[1]

C14_RetryThenSuccess ==
  [][\A t \in Tasks :
       LET s == task[t]
           n == task'[t]
           c == s.call
       IN /\ c.wrapped
               => /\ c.attempt <= MAX_RETRIES
                  /\ c.invoked = c.attempt + 1
                  /\ c.logged = c.attempt + (IF s.pc = "sleep" THEN 1 ELSE 0)
          \* a response to ListAccountAssignments: the walk goes on with its page
          /\ (/\ s.pc = "await" /\ s.ctx = "list"
              /\ n # s /\ n.pc \notin {"sleep", "failed"})
               => /\ n.page = c.token + 1
                  /\ n.rows = s.rows
                  /\ c.logged = c.attempt
          \* a response to DescribeUser or DescribeGroup: the lookup returns the
          \* name of the directory and holds it in its cache
          /\ (/\ s.pc = "await" /\ s.ctx \in NameCtx
              /\ n.pc = "ret" /\ n.call.lastErr = NoError)
               => /\ n.retName = NameInDirectory(c.op, c.id)
                  /\ n.call.logged = c.attempt
                  /\ IF s.ctx = "gname"
                     THEN c.id \in DOMAIN groupCache'
                          /\ groupCache'[c.id] = n.retName
                     ELSE c.id \in DOMAIN userCache'
                          /\ userCache'[c.id] = n.retName]_vars

(* a user name has come back on the last attempt, after MAX_RETRIES rate-limit
   errors and as many retry messages *)
C14_Witness ==
  /\ \E t \in Tasks :
       /\ task[t].pc = "ret" /\ task[t].ctx \in UserCtx
       /\ task[t].call.attempt = MAX_RETRIES
       /\ task[t].call.logged = MAX_RETRIES
       /\ task[t].call.lastErr = NoError
       /\ task[t].retName = "alice"
       /\ userCache[task[t].call.id] = "alice"

(***************************************************************************)
(* C15: the sleep after failed attempt k (counted from 0, k < MAX_RETRIES) *)
(* has the base delay INITIAL_RETRY_DELAY * 2^k ms, which is 1, 2, 4, 8    *)
(* and 16 seconds for the five retries; the jitter added to it is at least *)
(* 0 and less than 1000 ms; each base delay of a call is twice the one     *)
(* before it.                                                              *)
(***************************************************************************)
C15_BackoffDelay ==
  [][\A t \in Tasks :
       LET s == task[t]
           c == task'[t].call
       IN (s.pc = "await" /\ task'[t].pc = "sleep")
            => /\ c.attempt \in 0..(MAX_RETRIES - 1)
               /\ c.attempt = s.call.attempt
               /\ c.exponentialDelay = INITIAL_RETRY_DELAY * 2^c.attempt
               /\ c.exponentialDelay
                    = <<1000, 2000, 4000, 8000, 16000>>[c.attempt + 1]
               /\ c.jitter >= 0 /\ c.jitter < 1000
               /\ c.attempt >= 1
                    => c.exponentialDelay = 2 * s.call.exponentialDelay]_vars

(* a call sleeps before its last attempt: 16 s and the largest jitter *)
C15_Witness ==
  \E t \in Tasks :
    /\ task[t].pc = "sleep"
    /\ task[t].call.attempt = MAX_RETRIES - 1
    /\ task[t].call.exponentialDelay = 16000
    /\ task[t].call.jitter = 999

C17_RowPerAssignment ==
  [][\A t \in Tasks :
       LET s == task[t]
           n == task'[t]
           resumed == s.pc = "ret" /\ n # s
           row == n.rows[Len(n.rows)]
           placed == /\ n.rows = Append(s.rows, row)
                     /\ row.accountNumber = allTasks[t].accountId
                     /\ row.permissionSetName = allTasks[t].permissionSetName
                     /\ row.username = s.retName
       IN /\ (resumed /\ s.ctx = "user")
               => /\ placed
                  /\ row.assignmentType = "USER"
                  /\ "groupName" \notin DOMAIN row
          /\ (resumed /\ s.ctx = "gname")
               => n.groupName = s.retName /\ n.groupId = s.groupId
          /\ (resumed /\ s.ctx = "gmembers" /\ s.retList # <<>>)
               => n.groupName = s.groupName /\ n.groupId = s.groupId
          /\ (resumed /\ s.ctx = "member")
               => /\ placed
                  /\ row.assignmentType = "GROUP"
                  /\ row.groupName = s.groupName
                  /\ s.m < Len(s.members)
                       => n.groupName = s.groupName /\ n.groupId = s.groupId
          /\ (s.ctx = "member" /\ ~resumed)
               => n.groupName = s.groupName /\ n.groupId = s.groupId]_vars

(* a work unit with two groups that both have the user u1 has completed with a
   row of alice for each group *)
C17_Witness ==
  \E t \in Tasks :
    /\ task[t].pc = "done"
    /\ \E j, k \in 1..Len(task[t].rows) :
         /\ task[t].rows[j].username = "alice"
         /\ task[t].rows[j].assignmentType = "GROUP"
         /\ task[t].rows[j].groupName = "Devs"
         /\ task[t].rows[k].username = "alice"
         /\ task[t].rows[k].assignmentType = "GROUP"
         /\ task[t].rows[k].groupName = "Ops"
    /\ \E u \in Tasks :
         /\ task[u].pc = "done" /\ Len(task[u].rows) > 0
         /\ task[u].rows[1].assignmentType = "USER"
         /\ task[u].rows[1].username = "alice"

(***************************************************************************)
(* C18: allTasks, built from the two enumerated maps before any task runs, *)
(* has one entry per pair of an account and a permission set and no other  *)
(* entry, account by account in the order of the accounts and, within an   *)
(* account, in the order of the permission sets; the tasks start in that   *)
(* order and work on the pair of their entry.                              *)
(***************************************************************************)
C18_TaskList ==
  LET A == Len(accounts)
      P == Len(allPermissionSets)
  IN /\ Len(allTasks) = A * P
     /\ \A a \in 1..A, p \in 1..P :
          allTasks[(a - 1) * P + p]
            = [accountId |-> accounts[a][1], accountName |-> accounts[a][2],
               permissionSetArn |-> allPermissionSets[p][1],
               permissionSetName |-> allPermissionSets[p][2]]
     /\ \A a \in 1..A, p \in 1..P :
          LET t == (a - 1) * P + p
              s == task[t]
          IN /\ \A u \in Tasks : (u < t /\ s.pc # "queued") => task[u].pc # "queued"
             /\ s.call.op = "ListAccountAssignments" => s.call.id = accounts[a][1]
             /\ \A k \in 1..Len(s.rows) :
                  /\ s.rows[k].accountNumber = accounts[a][1]
                  /\ s.rows[k].permissionSetName = allPermissionSets[p][2]

(* the first permission set of the second account is being listed while the
   second permission set of the first account has its rows and the last pair is
   still queued *)
C18_Witness ==
  /\ task[4].pc = "queued"
  /\ task[3].pc = "await" /\ task[3].call.op = "ListAccountAssignments"
  /\ task[3].call.id = "a2"
  /\ task[2].pc = "done" /\ Len(task[2].rows) = 2
  /\ task[2].rows[1].accountNumber = "a1"
  /\ task[2].rows[1].permissionSetName = "Read"

(***************************************************************************)
(* C19: once a task has rejected, no task that is still queued is started. *)
(***************************************************************************)
C19_NoStartAfterFailure ==
  [][(\E u \in Tasks : task[u].pc = "failed")
       => \A t \in Tasks : task[t].pc = "queued" => task'[t].pc = "queued"]_vars

(***************************************************************************)
(* C20: the rows a work unit holds are in the order of its walk (page by   *)
(* page, assignment by assignment, member by member), and the report has   *)
(* the rows of each work unit in the order the work unit holds them.       *)
(***************************************************************************)

(* the user a username of a row stands for: a name is the directory's name, the
   raw id or the tombstone *)
UserOfName(name) ==
  CHOOSE id \in UserIds :
    name \in {id, "[Deleted User: " \o id \o "]"}
               \cup (IF DescribeUser(id).ok THEN {DescribeUser(id).value[1]}
                     ELSE {})

GroupOfName(name) ==
  CHOOSE id \in GroupIds :
    name \in {id, "[Deleted Group: " \o id \o "]"}
               \cup (IF DescribeGroup(id).ok THEN {DescribeGroup(id).value[1]}
                     ELSE {})

(* the assignment and member a row comes from *)
Origin(row) ==
  IF row.assignmentType = "USER" THEN <<"USER", UserOfName(row.username), "">>
  ELSE <<"GROUP", UserOfName(row.username), GroupOfName(row.groupName)>>

(* the origins of the rows of one assignment, were every member listed *)
OriginsOf(a) ==
  IF a.PrincipalId = Missing \/ a.PrincipalType = Missing THEN <<>>
  ELSE IF a.PrincipalType = "USER" THEN << <<"USER", a.PrincipalId, "">> >>
  ELSE [k \in 1..Len(AllMembers(a.PrincipalId)) |->
          <<"GROUP", AllMembers(a.PrincipalId)[k], a.PrincipalId>>]

RECURSIVE PageOrigins(_, _)
PageOrigins(page, n) ==
  IF n = 0 THEN <<>> ELSE PageOrigins(page, n - 1) \o OriginsOf(page[n])

RECURSIVE WalkOrigins(_, _)
WalkOrigins(t, p) ==
  IF p = 0 THEN <<>>
  ELSE WalkOrigins(t, p - 1)
         \o PageOrigins(PagesOf(t)[p], Len(PagesOf(t)[p]))

RECURSIVE IsSubsequence(_, _)
IsSubsequence(a, b) ==
  IF a = <<>> THEN TRUE
  ELSE IF b = <<>> THEN FALSE
  ELSE IF Head(a) = Head(b) THEN IsSubsequence(Tail(a), Tail(b))
  ELSE IsSubsequence(a, Tail(b))

RowOf(t, row) ==
  /\ row.accountNumber = allTasks[t].accountId
  /\ row.permissionSetName = allTasks[t].permissionSetName

C20_OrderKept ==
  \A t \in Tasks :
    /\ IsSubsequence([k \in 1..Len(task[t].rows) |-> Origin(task[t].rows[k])],
                     WalkOrigins(t, Len(PagesOf(t))))
    /\ run = "written"
         => SelectSeq(allAssignments, LAMBDA row : RowOf(t, row)) = task[t].rows

(* the report is written with all rows of the directory; the first work unit's
   three rows are those of its direct user and, in the order of the member
   pages, of the two members of its group *)
C20_Witness ==
  /\ run = "written"
  /\ Len(allAssignments) = TotalRows(task, Len(allTasks))
  /\ [k \in 1..Len(task[1].rows) |-> Origin(task[1].rows[k])]
       = << <<"USER", "u1", "">>, <<"GROUP", "u1", "g1">>,
            <<"GROUP", "u3", "g1">> >>
  /\ SelectSeq(allAssignments, LAMBDA row : RowOf(1, row)) = task[1].rows
  /\ \A t \in Tasks :
       Len(task[t].rows) = Len(WalkOrigins(t, Len(PagesOf(t))))

(***************************************************************************)
(* C21: completedOperations never decreases; it grows by one exactly when  *)
(* a task whose getAssignments has returned resolves, and at no other      *)
(* step, so it is the number of resolved tasks in every state and never    *)
(* more than the number of tasks; it is the number of tasks when main goes *)
(* on to the aggregation.                                                  *)
(***************************************************************************)
C21_Counter ==
  [][LET Done(tk) == {t \in Tasks : tk[t].pc = "done"}
         resolving == {t \in Tasks : task[t].pc # "done" /\ task'[t].pc = "done"}
     IN /\ completedOperations' >= completedOperations
        /\ completedOperations' = completedOperations + Cardinality(resolving)
        /\ \A t \in resolving : task[t].pc = "returned"
        /\ Done(task) \subseteq Done(task')
        /\ completedOperations' = Cardinality(Done(task'))
        /\ completedOperations' <= Len(allTasks)
        /\ (run = "running" /\ run' = "written")
             => completedOperations = Len(allTasks)]_vars

(* every task has resolved and counted itself, main has not gone on yet *)
C21_Witness ==
  /\ run = "running"
  /\ completedOperations = Len(allTasks)
  /\ \A t \in Tasks : task[t].pc = "done"

(***************************************************************************)
(* C22: a work unit asks for a page of ListAccountAssignments only when it *)
(* starts (no token) or when it has received the page before and walked it *)
(* to its end, and then with the NextToken of that page; while the request *)
(* is out the work unit does nothing else; getAssignments returns when the *)
(* page it has walked to its end has no NextToken, and only then.          *)
(***************************************************************************)

(* no assignment after position i of page p of the work unit is walked *)
RestSkipped(t, p, i) ==
  \A j \in (i + 1)..Len(PagesOf(t)[p]) :
    \/ PagesOf(t)[p][j].PrincipalId = Missing
    \/ PagesOf(t)[p][j].PrincipalType = Missing

(* the step from s ends the walk of the page the work unit holds *)
PageWalked(t, s) ==
  \/ /\ s.pc = "await" /\ s.ctx = "list"
     /\ RestSkipped(t, s.call.token + 1, 0)
  \/ /\ s.pc = "ret" /\ RestSkipped(t, s.page, s.i)
     /\ \/ s.ctx = "user"
        \/ s.ctx = "gmembers" /\ s.retList = <<>>
        \/ s.ctx = "member" /\ s.m = Len(s.members)

(* the page the work unit holds once the step from s is taken *)
PageHeld(s) ==
  IF s.pc = "await" /\ s.ctx = "list" THEN s.call.token + 1 ELSE s.page

C22_SequentialPages ==
  [][\A t \in Tasks :
       LET s == task[t]
           n == task'[t]
           listing(x) == x.ctx = "list" /\ x.pc \in {"await", "sleep"}
           asks == /\ listing(n)
                   /\ ~(listing(s) /\ s.call.token = n.call.token)
       IN /\ asks => \/ s.pc = "queued" /\ n.call.token = 0
                     \/ /\ PageWalked(t, s)
                        /\ n.call.token = PageHeld(s)
                        /\ n.call.token < Len(PagesOf(t))
          /\ listing(n)
               => /\ n.call.op = "ListAccountAssignments"
                  /\ n.call.token = n.page
          /\ (listing(s) /\ n # s /\ n.pc \notin {"sleep", "failed"} /\ ~listing(n))
               => n.page = s.call.token + 1
          /\ (n.pc = "returned" /\ s.pc # "returned")
               => PageWalked(t, s) /\ PageHeld(s) = Len(PagesOf(t))
          /\ n.page >= s.page /\ n.page <= s.page + 1]_vars

(* the second page is asked for with the token of the first, whose one
   assignment has its row *)
C22_Witness ==
  \E t \in Tasks :
    /\ task[t].pc = "await" /\ task[t].ctx = "list"
    /\ task[t].call.token = 1 /\ task[t].page = 1
    /\ Len(PagesOf(t)) = 2
    /\ Len(task[t].rows) = 1

(***************************************************************************)
(* C23: the walk passes over an assignment without PrincipalId or without  *)
(* PrincipalType in the step that brings it there: the work unit gets no   *)
(* row and sends no request for it, no cache is written, the work unit     *)
(* does not fail, and the walk is at the next assignment that has both     *)
(* fields, or at the end of the page.  No other assignment is passed over. *)
(***************************************************************************)
Malformed(a) == a.PrincipalId = Missing \/ a.PrincipalType = Missing

C23_MalformedSkipped ==
  [][\A t \in Tasks :
       LET s == task[t]
           n == task'[t]
           received == s.pc = "await" /\ s.ctx = "list"
                       /\ n.pc \notin {"sleep", "failed"} /\ n # s
           p == PageHeld(s)
           from == IF received THEN 0 ELSE s.i
           moved == \/ received
                    \/ s.pc = "ret" /\ (n.page # s.page \/ n.i # s.i)
           to == IF n.page = p /\ n.i >= 1 THEN n.i - 1 ELSE Len(PagesOf(t)[p])
           passed == (from + 1)..to
       IN /\ (n.i >= 1 /\ n.page >= 1) => ~Malformed(PagesOf(t)[n.page][n.i])
          /\ n.call.op # "" => n.call.id # Missing
          /\ moved
               => /\ \A j \in passed : Malformed(PagesOf(t)[p][j])
                  /\ passed # {}
                       => /\ n.pc # "failed" /\ n.error = NoError
                          /\ UNCHANGED <<userCache, groupCache,
                                         groupMembersCache>>
                          /\ Len(n.rows)
                               = Len(s.rows)
                                 + (IF s.pc = "ret" /\ s.ctx \in UserCtx
                                    THEN 1 ELSE 0)
                          /\ \A k \in Keys :
                               lookups'[k] # lookups[k]
                                 => /\ to < Len(PagesOf(t)[p])
                                    /\ k[2] = PagesOf(t)[p][to + 1].PrincipalId]_vars

(* a work unit whose first assignment has no PrincipalId is at its second
   assignment without a row, while a work unit whose last assignment has no
   PrincipalType has completed with the one row of its first assignment *)
C23_Witness ==
  /\ \E t \in Tasks :
       /\ PagesOf(t)[1][1].PrincipalId = Missing
       /\ task[t].pc = "await" /\ task[t].page = 1 /\ task[t].i = 2
       /\ task[t].rows = <<>>
  /\ \E u \in Tasks :
       /\ Len(PagesOf(u)[1]) = 2
       /\ PagesOf(u)[1][2].PrincipalType = Missing
       /\ task[u].pc = "done" /\ Len(task[u].rows) = 1

(***************************************************************************)
(* C24: the report is the rows of the tasks one after the other in the     *)
(* order of allTasks, each row with the name of its account, whatever the  *)
(* order in which the tasks ran; when the service fails no call, it is the *)
(* one sequence of rows the directory determines.                          *)
(***************************************************************************)

(* the names the lookups give when the service answers as the directory says *)
ResolvedUser(id) ==
  IF ~DescribeUser(id).ok THEN "[Deleted User: " \o id \o "]"
  ELSE IF DescribeUser(id).value[1] = Missing THEN id
  ELSE DescribeUser(id).value[1]

ResolvedGroup(id) ==
  IF ~DescribeGroup(id).ok THEN "[Deleted Group: " \o id \o "]"
  ELSE IF DescribeGroup(id).value[1] = Missing THEN id
  ELSE DescribeGroup(id).value[1]

(* the report row of an origin of a work unit *)
ReportRow(t, o) ==
  IF o[1] = "USER"
  THEN [accountNumber |-> allTasks[t].accountId,
        accountName |-> allTasks[t].accountName,
        username |-> ResolvedUser(o[2]),
        permissionSetName |-> allTasks[t].permissionSetName,
        assignmentType |-> "USER"]
  ELSE [accountNumber |-> allTasks[t].accountId,
        accountName |-> allTasks[t].accountName,
        username |-> ResolvedUser(o[2]),
        permissionSetName |-> allTasks[t].permissionSetName,
        assignmentType |-> "GROUP", groupName |-> ResolvedGroup(o[3])]

RECURSIVE ExpectedReport(_)
ExpectedReport(k) ==
  IF k = 0 THEN <<>>
  ELSE ExpectedReport(k - 1)
         \o [j \in 1..Len(WalkOrigins(k, Len(PagesOf(k)))) |->
               ReportRow(k, WalkOrigins(k, Len(PagesOf(k)))[j])]

RECURSIVE ConcatRows(_, _)
ConcatRows(tk, k) ==
  IF k = 0 THEN <<>> ELSE ConcatRows(tk, k - 1) \o tk[k].rows

C24_Deterministic ==
  run = "written"
    => /\ allAssignments = ConcatRows(task, Len(allTasks))
       /\ \A k \in 1..Len(allAssignments) :
            \E a \in 1..Len(accounts) :
              /\ accounts[a][1] = allAssignments[k].accountNumber
              /\ accounts[a][2] = allAssignments[k].accountName
       /\ faults = 0 => allAssignments = ExpectedReport(Len(allTasks))

(* the report of a run in which the service failed no call *)
C24_Witness ==
  /\ run = "written" /\ faults = 0
  /\ Len(allAssignments) = Len(ExpectedReport(Len(allTasks)))
  /\ allAssignments[1].username = "alice"
  /\ allAssignments[1].accountName = "Prod"
  /\ allAssignments[Len(allAssignments)].accountName = "Dev"

====
